---- MODULE Spec2Model ----
(***************************************************************************)
(* A model of app.py, the Streamlit audio transcriber: the temp-file       *)
(* lifecycle (write, per-unit delete, sweep, background cleanup thread),    *)
(* transcribe_audio, and the batch pipeline of main().                      *)
(*                                                                         *)
(* Environment assumptions of the model, stated once:                      *)
(*  - uuid.uuid4().hex[:8] is a random 32-bit token: every call may return *)
(*    any token, so it is a nondeterministic choice from Tokens;            *)
(*  - removing an existing file succeeds; removing a missing one raises     *)
(*    FileNotFoundError (which the code swallows);                          *)
(*  - writing a temp file may fail with OSError (unreadable upload, a name  *)
(*    too long for the filesystem, a full disk);                            *)
(*  - a text is a sequence of words; the first word of an error text is     *)
(*    "Error:"; a whitespace word is " ".                                   *)
(***************************************************************************)
EXTENDS Integers, Sequences, FiniteSets, TLC

\* ------------------------------------------------------------ bounds
\* uuid tokens available to uuid4().hex[:8]
NumTokens == 2
\* largest number of files in one upload batch
MaxFiles == 2
\* Process clicks in one behaviour
MaxBatches == 2
\* the clock stops here
MaxNow == 601
\* directory entries of the sweep function's specification
MaxEntries == 3
\* script threads (sessions) of the thread-start specification
NumSessions == 2
\* calls of ensure_cleanup_thread_running per session
MaxCalls == 2
\* largest batch of the worker-pool specification
MaxPoolFiles == 5

\* ------------------------------------------------------------ program constants
MAX_TEMP_FILE_AGE_SECONDS == 600
INTERVAL_SECONDS == 600
POOL_CAP == 4

Tokens == 1..NumTokens

\* The instants the clock is observed at: each multiple of the retention
\* window and one second after it.
Instants == {t \in 0..MaxNow : (t % MAX_TEMP_FILE_AGE_SECONDS) \in {0, 1}}

Min(a, b) == IF a < b THEN a ELSE b
Max(a, b) == IF a < b THEN b ELSE a

\* ------------------------------------------------------------ names, paths, keys
\* uploaded_file.name, as its stem and extension (the uploader accepts wav, mp3)
UploadNames == {[stem |-> "a", ext |-> "wav"], [stem |-> "b", ext |-> "mp3"]}

\* os.path.splitext(name)[0] or "audio"
BaseName(name) == IF name.stem = "" THEN "audio" ELSE name.stem

\* name.split('.')[-1]
FileExt(name) == name.ext

\* os.path.join(TEMP_DIR, f"{base_name}_{unique_id}.{file_ext}")
TempPath(name, unique_id) ==
  [base |-> BaseName(name), id |-> unique_id, ext |-> FileExt(name)]

\* f"{unique_id}_{name}"
FileKey(unique_id, name) == [id |-> unique_id, name |-> name]

AllKeys == {FileKey(t, n) : t \in Tokens, n \in UploadNames}

\* ------------------------------------------------------------ texts
WS == " "
ErrorPrefix == "Error:"

RECURSIVE LStrip(_)
LStrip(s) == IF s # <<>> /\ Head(s) = WS THEN LStrip(Tail(s)) ELSE s

RECURSIVE RStrip(_)
RStrip(s) ==
  IF s # <<>> /\ s[Len(s)] = WS THEN RStrip(SubSeq(s, 1, Len(s) - 1)) ELSE s

\* str.strip()
Strip(s) == RStrip(LStrip(s))

StartsWithError(s) == Len(s) > 0 /\ s[1] = ErrorPrefix

ErrInternal == <<ErrorPrefix, "Internal - expected file path for transcription.">>
ErrUnclear ==
  <<ErrorPrefix, "Could not understand audio. Try a file with clearer speech.">>
\* f"Error: Failed to transcribe audio - {str(e)}"
ErrFailed(e) == <<ErrorPrefix, "Failed to transcribe audio -", e>>

\* ------------------------------------------------------------ the provider
\* What client.audio.transcriptions.create does with the opened file:
\* it returns a transcript whose text is speech, padded speech, blank or
\* None, or it raises.
ProviderOutcomes == {"speech", "padded", "blank", "none", "raise"}

\* transcript.text for a file holding upload `content` (None is <<>>)
ProviderText(outcome, content) ==
  CASE outcome = "speech" -> <<"speech", ToString(content)>>
    [] outcome = "padded" -> <<WS, "speech", ToString(content), WS>>
    [] outcome = "blank" -> <<WS, WS>>
    [] OTHER -> <<>>

\* ------------------------------------------------------------ transcribe_audio
Return(v) == [raised |-> FALSE, value |-> v]
Raise(e) == [raised |-> TRUE, value |-> e]

\* The try block of transcribe_audio. is_path: isinstance(audio_file,
\* (str, os.PathLike)); opened: open(audio_file, "rb") found the file.
TranscribeTry(is_path, opened, content, outcome, key) ==
  IF ~key THEN Raise("OpenAIError")
  ELSE IF ~is_path THEN Return(ErrInternal)
  ELSE IF ~opened THEN Raise("FileNotFoundError")
  ELSE IF outcome = "raise" THEN Raise("APIError")
  ELSE LET text == ProviderText(outcome, content)
           transcript_text == IF text # <<>> THEN Strip(text) ELSE <<>>
       IN  IF transcript_text # <<>> THEN Return(transcript_text)
           ELSE Return(ErrUnclear)

\* a faulty variant: an except clause that catches only the provider's error
transcribe_audio_narrow(is_path, opened, content, outcome, key) ==
  LET r == TranscribeTry(is_path, opened, content, outcome, key)
  IN  IF r.raised /\ r.value = "APIError" THEN Return(ErrFailed(r.value)) ELSE r

\* a faulty variant: the transcript returned without the test for an empty one
transcribe_audio_unchecked(is_path, opened, content, outcome, key) ==
  LET r == TranscribeTry(is_path, opened, content, outcome, key)
  IN  IF r.raised THEN Return(ErrFailed(r.value))
      ELSE IF r.value = ErrUnclear THEN Return(<<>>) ELSE r

\* transcribe_audio: the try block under `except Exception as e`
transcribe_audio(is_path, opened, content, outcome, key) ==
  LET r == TranscribeTry(is_path, opened, content, outcome, key)
  IN  IF r.raised THEN Return(ErrFailed(r.value)) ELSE r

\* Whether the call is one of the failure cases.
TranscribeFails(is_path, opened, outcome, key) ==
  \/ ~key
  \/ ~is_path
  \/ ~opened
  \/ outcome \in {"raise", "blank", "none"}

\* ------------------------------------------------------------ sweep
\* A directory is a function from the paths in it to entries
\* [kind, mtime, content]; kind is "file" or "dir".
EmptyDir == [p \in {} |-> 0]

Without(d, p) == [q \in DOMAIN d \ {p} |-> d[q]]

\* a faulty variant: >= for >
IsStaleGe(entry, t, max_age_seconds) ==
  entry.kind = "file" /\ t - entry.mtime >= max_age_seconds

\* path.is_file() and now - path.stat().st_mtime > max_age_seconds
IsStale(entry, t, max_age_seconds) ==
  entry.kind = "file" /\ t - entry.mtime > max_age_seconds

\* One iteration of the for loop over the listing, for path p; a path
\* that is gone is no file, or its stat raises and is ignored.
SweepEntry(d, p, t, max_age_seconds) ==
  IF p \in DOMAIN d /\ IsStale(d[p], t, max_age_seconds)
  THEN Without(d, p) ELSE d

\* a faulty variant: the loop left after its first unlink
SweepAllOnce(d, listing, t, max_age_seconds) ==
  LET stale == {p \in listing \cap DOMAIN d : IsStale(d[p], t, max_age_seconds)}
  IN  IF stale = {} THEN d ELSE Without(d, CHOOSE p \in stale : TRUE)

RECURSIVE SweepAll(_, _, _, _)
SweepAll(d, listing, t, max_age_seconds) ==
  IF listing = {} THEN d
  ELSE LET p == CHOOSE q \in listing : TRUE
       IN  SweepAll(SweepEntry(d, p, t, max_age_seconds), listing \ {p},
                    t, max_age_seconds)

\* delete_old_files_in_directory run without interleaving: now is read
\* once, a missing directory returns at once, the listing is swept.
delete_old_files_in_directory(d, exists, t, max_age_seconds) ==
  IF ~exists THEN d ELSE SweepAll(d, DOMAIN d, t, max_age_seconds)


Put(d, p, e) == [q \in DOMAIN d \cup {p} |-> IF q = p THEN e ELSE d[q]]

\* ------------------------------------------------------------ state
VARIABLES
  now,             \* time.time(), in seconds
  dirExists,       \* TEMP_DIR exists
  dir,             \* the entries of TEMP_DIR
  apiKey,          \* OPENAI_API_KEY is set
  cleanup_thread,  \* _cleanup_thread: 0 is None, else an index of cleaners
  cleaners,        \* the Thread objects created for _cleanup_loop
  stopEvent,       \* _cleanup_stop_event.is_set()
  transcripts,     \* st.session_state.transcripts
  processed,       \* st.session_state.processed
  temp_paths,      \* st.session_state.temp_paths
  pc,              \* where the session's script is
  uploaded_files,  \* the batch of the running or last Process click
  units,           \* files_to_process with each unit's future
  page,            \* what the last script run showed: st.error calls, an uncaught exception
  oldKeys,         \* history: keys that were removed or cleared from transcripts
  batches,         \* history: Process clicks so far
  callers,         \* the script threads inside ensure_cleanup_thread_running
  probe            \* a direct call of one function: its arguments and result

vars ==
  <<now, dirExists, dir, apiKey, cleanup_thread, cleaners, stopEvent,
    transcripts, processed, temp_paths, pc, uploaded_files, units, page,
    oldKeys, batches, callers, probe>>

fsVars == <<dirExists, dir>>
threadVars == <<cleanup_thread, cleaners, stopEvent>>
sessionVars == <<transcripts, processed, temp_paths, pc, uploaded_files, units, page>>
histVars == <<oldKeys, batches>>

EmptyMap == [k \in {} |-> 0]
NoProbe == [fn |-> "none"]
\* nothing shown yet
BlankPage == [ran |-> FALSE, fatal |-> 0, exception |-> FALSE]
\* a script run that showed no error
CleanPage == [ran |-> TRUE, fatal |-> 0, exception |-> FALSE]

\* the upload batches a user can submit: 1..MaxFiles names, repeats allowed
Batches == UNION {[1..n -> UploadNames] : n \in 1..MaxFiles}

\* ------------------------------------------------------------ the cleanup thread
\* no more Thread objects than calls of ensure_cleanup_thread_running
MaxCleaners == NumSessions * MaxCalls

\* threading.Thread(target=_cleanup_loop, ...), not yet started
NewCleaner == [pc |-> "new", wakeAt |-> 0]

\* Thread.is_alive(): started and not finished
IsAlive(c) == c.pc \in {"check", "wait"}

AliveCleaners == {i \in 1..Len(cleaners) : IsAlive(cleaners[i])}

\* line 57: _cleanup_thread is None or not _cleanup_thread.is_alive()
NeedsThread(thread, cs) == thread = 0 \/ ~IsAlive(cs[thread])

\* ensure_cleanup_thread_running run without interleaving (one script
\* thread): the thread object it leaves in _cleanup_thread, started.
EnsureThreads(thread, cs) ==
  IF NeedsThread(thread, cs)
  THEN Append(cs, [NewCleaner EXCEPT !.pc = "check"]) ELSE cs

EnsureThread(thread, cs) ==
  IF NeedsThread(thread, cs) THEN Len(cs) + 1 ELSE thread

\* _cleanup_loop, one iteration: the while test (a set stop event ends the
\* thread), delete_old_files_in_directory, then the thread is in
\* _cleanup_stop_event.wait(interval_seconds). A wait that has timed out,
\* or that the stop event ended, comes back to the test.
CleanerLoop(i) ==
  /\ i \in 1..Len(cleaners)
  /\ \/ cleaners[i].pc = "check"
     \/ cleaners[i].pc = "wait" /\ (stopEvent \/ now >= cleaners[i].wakeAt)
  /\ IF stopEvent
     THEN /\ cleaners' = [cleaners EXCEPT ![i] = [pc |-> "dead", wakeAt |-> 0]]
          /\ UNCHANGED dir
     ELSE /\ dir' = delete_old_files_in_directory(dir, dirExists, now,
                                                  MAX_TEMP_FILE_AGE_SECONDS)
          /\ cleaners' = [cleaners EXCEPT ![i] =
                            [pc |-> "wait", wakeAt |-> now + INTERVAL_SECONDS]]
  /\ UNCHANGED <<now, dirExists, apiKey, cleanup_thread, stopEvent, sessionVars,
                 histVars, callers, probe>>

\* Time passes. The sweep thread is punctual: a started thread runs its
\* loop before the clock moves, and the clock does not pass the end of a
\* wait before the thread has left it.
Tick ==
  /\ \E t \in Instants :
       /\ t > now
       /\ \A i \in DOMAIN cleaners :
            /\ cleaners[i].pc # "check"
            /\ cleaners[i].pc = "wait" => t <= cleaners[i].wakeAt
       /\ now' = t
  /\ UNCHANGED <<fsVars, apiKey, threadVars, sessionVars, histVars, callers, probe>>

\* ------------------------------------------------------------ main()
\* a faulty variant: the credential check left out
KeyMissingNever(key) == FALSE

\* line 114: if not OPENAI_API_KEY
KeyMissing(key) == ~key

\* lines 109-111, from one script thread: the thread is ensured (the
\* directory made), then the stale files are swept.
Prologue ==
  /\ dirExists' = TRUE
  /\ cleaners' = EnsureThreads(cleanup_thread, cleaners)
  /\ cleanup_thread' = EnsureThread(cleanup_thread, cleaners)
  /\ UNCHANGED stopEvent

PrologueDir == delete_old_files_in_directory(dir, TRUE, now, MAX_TEMP_FILE_AGE_SECONDS)

\* A run of main() with no Process click: the prologue, the credential
\* check (st.error and return), the results rendered.
RunScript ==
  /\ pc \in {"idle", "done"}
  /\ Prologue
  /\ dir' = PrologueDir
  /\ page' = IF KeyMissing(apiKey) THEN [CleanPage EXCEPT !.fatal = 1]
             ELSE CleanPage
  /\ pc' = "idle"
  /\ uploaded_files' = <<>>
  /\ units' = <<>>
  /\ UNCHANGED <<now, apiKey, transcripts, processed, temp_paths,
                 histVars, callers, probe>>

\* A run of main() with the Process button clicked (the button is only
\* rendered past the credential check): lines 109-152.
ClickProcess ==
  /\ pc \in {"idle", "done"}
  /\ ~KeyMissing(apiKey)
  /\ batches < MaxBatches
  /\ \E files \in Batches : uploaded_files' = files
  /\ Prologue
  /\ dir' = PrologueDir
  /\ page' = CleanPage
  /\ transcripts' = EmptyMap
  /\ temp_paths' = EmptyMap
  /\ units' = <<>>
  /\ pc' = "write"
  /\ oldKeys' = oldKeys \cup DOMAIN transcripts
  /\ batches' = batches + 1
  /\ UNCHANGED <<now, apiKey, processed, callers, probe>>

NewUnit(name, path) ==
  [name |-> name, path |-> path, st |-> "queued", opened |-> FALSE,
   content |-> 0, failed |-> FALSE, raised |-> FALSE, text |-> <<>>,
   removes |-> 0]

\* lines 160-162 raising: nothing catches it, main() ends with the
\* exception and Streamlit shows it.
WriteFails(i, name) ==
  /\ units' = <<>>
  /\ uploaded_files' = <<>>
  /\ pc' = "idle"
  /\ page' = [page EXCEPT !.exception = TRUE]

\* lines 155-163, one iteration: the temp file of upload i is written,
\* or seek or open raises (no file is made).
WriteTemp ==
  /\ pc = "write"
  /\ Len(units) < Len(uploaded_files)
  /\ LET i == Len(units) + 1
         name == uploaded_files[i]
     IN  \E unique_id \in Tokens, how \in {"ok", "raises"} :
           LET path == TempPath(name, unique_id)
               entry == [kind |-> "file", mtime |-> now, content |-> i]
           IN  /\ dir' = IF how = "raises" THEN dir ELSE Put(dir, path, entry)
               /\ IF how = "ok"
                  THEN /\ units' = Append(units, NewUnit(name, path))
                       /\ UNCHANGED <<pc, page, uploaded_files>>
                  ELSE WriteFails(i, name)
  /\ UNCHANGED <<now, dirExists, apiKey, threadVars, transcripts, processed,
                 temp_paths, histVars, callers, probe>>

\* a faulty variant: no cap, one worker per file
MaxWorkersUncapped(n) == Max(1, n)

\* line 165
MaxWorkers(n) == Min(POOL_CAP, Max(1, n))

\* lines 165-178: the executor is made and every task submitted
SubmitAll ==
  /\ pc = "write"
  /\ Len(units) = Len(uploaded_files)
  /\ pc' = "pool"
  /\ UNCHANGED <<now, fsVars, apiKey, threadVars, transcripts, processed,
                 temp_paths, uploaded_files, units, page, histVars, callers, probe>>

Running == {j \in 1..Len(units) : units[j].st = "running"}

\* A pool worker takes the next queued task: transcribe_audio(p) up to
\* the provider call, the file opened (or found missing).
TaskStart(i) ==
  /\ pc = "pool"
  /\ i \in 1..Len(units)
  /\ units[i].st = "queued"
  /\ \A j \in 1..(i - 1) : units[j].st # "queued"
  /\ Cardinality(Running) < MaxWorkers(Len(units))
  /\ LET p == units[i].path
         found == p \in DOMAIN dir /\ dir[p].kind = "file"
     IN  units' = [units EXCEPT ![i] =
                     [@ EXCEPT !.st = "running", !.opened = found,
                               !.content = IF found THEN dir[p].content ELSE 0]]
  /\ UNCHANGED <<now, fsVars, apiKey, threadVars, transcripts, processed,
                 temp_paths, pc, uploaded_files, page, histVars, callers, probe>>

\* a faulty variant: the removal after the return, not in a finally, so that a
\* failed transcription leaves the file
TaskReleaseOnSuccess(d, p, failed) == IF failed THEN d ELSE Without(d, p)

\* lines 172-177: the finally of task removes p whatever the outcome; a
\* missing file raises, which is swallowed.
TaskRelease(d, p, failed) == Without(d, p)

\* The provider call ends, transcribe_audio returns, and the task's
\* finally removes the temp file (lines 170-177).
TaskFinish(i) ==
  /\ pc = "pool"
  /\ i \in 1..Len(units)
  /\ units[i].st = "running"
  /\ \E outcome \in ProviderOutcomes :
       LET u == units[i]
           r == transcribe_audio(TRUE, u.opened, u.content, outcome, apiKey)
       IN  units' = [units EXCEPT ![i] =
                       [@ EXCEPT !.st = "done",
                                 !.failed = TranscribeFails(TRUE, u.opened, outcome, apiKey),
                                 !.raised = r.raised, !.text = r.value,
                                 !.removes = @ + 1]]
  /\ dir' = TaskRelease(dir, units[i].path, units'[i].failed)
  /\ UNCHANGED <<now, dirExists, apiKey, threadVars, transcripts, processed,
                 temp_paths, pc, uploaded_files, page, histVars, callers, probe>>

\* lines 183-186: future.result(), an exception of the task made a text
FutureText(u) == IF u.raised THEN ErrFailed(u.text) ELSE u.text

\* lines 180-191, one iteration of the as_completed loop
Collect(i) ==
  /\ pc = "pool"
  /\ i \in 1..Len(units)
  /\ units[i].st = "done"
  /\ \E unique_id \in Tokens :
       transcripts' = Put(transcripts, FileKey(unique_id, units[i].name),
                          [name |-> units[i].name, text |-> FutureText(units[i])])
  /\ units' = [units EXCEPT ![i] = [@ EXCEPT !.st = "recorded"]]
  /\ UNCHANGED <<now, fsVars, apiKey, threadVars, processed, temp_paths, pc,
                 uploaded_files, page, histVars, callers, probe>>

\* lines 193-196: every future collected, the executor left
FinishProcess ==
  /\ pc = "pool"
  /\ \A j \in 1..Len(units) : units[j].st = "recorded"
  /\ dir' = delete_old_files_in_directory(dir, dirExists, now, MAX_TEMP_FILE_AGE_SECONDS)
  /\ temp_paths' = EmptyMap
  /\ processed' = TRUE
  /\ pc' = "done"
  /\ UNCHANGED <<now, dirExists, apiKey, threadVars, transcripts, uploaded_files,
                 units, page, histVars, callers, probe>>

\* a faulty variant: the callback empties transcripts
RemoveTranscriptClears(key_to_remove) ==
  /\ pc \in {"idle", "done"}
  /\ transcripts' = EmptyMap
  /\ temp_paths' = EmptyMap
  /\ oldKeys' = oldKeys \cup DOMAIN transcripts
  /\ pc' = "idle"
  /\ uploaded_files' = <<>>
  /\ units' = <<>>
  /\ UNCHANGED <<now, fsVars, apiKey, threadVars, processed, page, batches,
                 callers, probe>>

\* remove_transcript(key_to_remove), the download button's on_click
RemoveTranscript(key_to_remove) ==
  /\ pc \in {"idle", "done"}
  /\ transcripts' = IF key_to_remove \in DOMAIN transcripts
                    THEN Without(transcripts, key_to_remove) ELSE transcripts
  /\ temp_paths' = IF key_to_remove \in DOMAIN temp_paths
                   THEN Without(temp_paths, key_to_remove) ELSE temp_paths
  /\ dir' = IF key_to_remove \in DOMAIN temp_paths
            THEN Without(dir, temp_paths[key_to_remove]) ELSE dir
  /\ oldKeys' = oldKeys \cup ({key_to_remove} \cap DOMAIN transcripts)
  /\ pc' = "idle"
  /\ uploaded_files' = <<>>
  /\ units' = <<>>
  /\ UNCHANGED <<now, dirExists, apiKey, threadVars, processed, page, batches,
                 callers, probe>>

\* ------------------------------------------------------------ the application
Init ==
  /\ now = 0
  /\ dirExists = FALSE
  /\ dir = EmptyDir
  /\ apiKey \in BOOLEAN
  /\ cleanup_thread = 0
  /\ cleaners = <<>>
  /\ stopEvent = FALSE
  /\ transcripts = EmptyMap
  /\ processed = FALSE
  /\ temp_paths = EmptyMap
  /\ pc = "idle"
  /\ uploaded_files = <<>>
  /\ units = <<>>
  /\ page = BlankPage
  /\ oldKeys = {}
  /\ batches = 0
  /\ callers = <<>>
  /\ probe = NoProbe

Next ==
  \/ RunScript
  \/ ClickProcess
  \/ WriteTemp
  \/ SubmitAll
  \/ \E i \in 1..MaxFiles : TaskStart(i)
  \/ \E i \in 1..MaxFiles : TaskFinish(i)
  \/ \E i \in 1..MaxFiles : Collect(i)
  \/ FinishProcess
  \/ \E k \in AllKeys : RemoveTranscript(k)
  \/ \E i \in 1..MaxCleaners : CleanerLoop(i)
  \/ Tick

Spec == Init /\ [][Next]_vars


\* ------------------------------------------------------------ transcribe_audio called directly
TranscribeInputs ==
  [fn : {"transcribe_audio"}, is_path : BOOLEAN, opened : BOOLEAN,
   content : 1..MaxFiles, outcome : ProviderOutcomes, key : BOOLEAN,
   done : {FALSE}, result : {Return(<<>>)}]

InitTranscribe ==
  /\ now = 0
  /\ dirExists = FALSE
  /\ dir = EmptyDir
  /\ probe \in TranscribeInputs
  /\ apiKey = probe.key
  /\ cleanup_thread = 0
  /\ cleaners = <<>>
  /\ stopEvent = FALSE
  /\ transcripts = EmptyMap
  /\ processed = FALSE
  /\ temp_paths = EmptyMap
  /\ pc = "idle"
  /\ uploaded_files = <<>>
  /\ units = <<>>
  /\ page = BlankPage
  /\ oldKeys = {}
  /\ batches = 0
  /\ callers = <<>>

CallTranscribe ==
  /\ probe.fn = "transcribe_audio"
  /\ ~probe.done
  /\ probe' = [probe EXCEPT
                 !.done = TRUE,
                 !.result = transcribe_audio(probe.is_path, probe.opened,
                                             probe.content, probe.outcome, probe.key)]
  /\ UNCHANGED <<now, fsVars, apiKey, threadVars, sessionVars, histVars, callers>>

SpecTranscribe == InitTranscribe /\ [][CallTranscribe]_vars

\* ------------------------------------------------------------ the sweep called directly
MaxAges == {MAX_TEMP_FILE_AGE_SECONDS, 1}

\* a directory of at most MaxEntries entries, files and subdirectories,
\* each one second inside the window, at its edge or one second outside
SweepDirs(t, max_age) ==
  LET entries == [kind : {"file", "dir"},
                  mtime : {t - (max_age - 1), t - max_age, t - (max_age + 1)},
                  content : {0}]
  IN  UNION {[S -> entries] : S \in SUBSET (1..MaxEntries)}

InitSweep ==
  /\ now = MaxNow
  /\ dirExists \in BOOLEAN
  /\ \E max_age \in MaxAges :
       /\ probe = [fn |-> "delete_old_files_in_directory",
                   max_age |-> max_age, done |-> FALSE, before |-> EmptyDir,
                   again |-> FALSE, first |-> EmptyDir]
       /\ dir \in (IF dirExists THEN SweepDirs(now, max_age) ELSE {EmptyDir})
  /\ apiKey = TRUE
  /\ cleanup_thread = 0
  /\ cleaners = <<>>
  /\ stopEvent = FALSE
  /\ transcripts = EmptyMap
  /\ processed = FALSE
  /\ temp_paths = EmptyMap
  /\ pc = "idle"
  /\ uploaded_files = <<>>
  /\ units = <<>>
  /\ page = BlankPage
  /\ oldKeys = {}
  /\ batches = 0
  /\ callers = <<>>

CallSweep ==
  /\ probe.fn = "delete_old_files_in_directory"
  /\ ~probe.done
  /\ dir' = delete_old_files_in_directory(dir, dirExists, now, probe.max_age)
  /\ probe' = [probe EXCEPT !.done = TRUE, !.before = dir, !.first = dir']
  /\ UNCHANGED <<now, dirExists, apiKey, threadVars, sessionVars, histVars, callers>>

\* the same call once more, at once: time.time() reads the same instant
CallSweepAgain ==
  /\ probe.fn = "delete_old_files_in_directory"
  /\ probe.done
  /\ ~probe.again
  /\ dir' = delete_old_files_in_directory(dir, dirExists, now, probe.max_age)
  /\ probe' = [probe EXCEPT !.again = TRUE]
  /\ UNCHANGED <<now, dirExists, apiKey, threadVars, sessionVars, histVars, callers>>

NextSweep == CallSweep \/ CallSweepAgain

SpecSweep == InitSweep /\ [][NextSweep]_vars


\* ------------------------------------------------------------ ensure_cleanup_thread_running, line by line
\* Streamlit runs each session's script in a thread of its own, so main()
\* of several sessions may be inside ensure_cleanup_thread_running
\* together; a thread switch may fall between any two lines.
Sessions == 1..NumSessions

InitEnsure ==
  /\ now = 0
  /\ dirExists = FALSE
  /\ dir = EmptyDir
  /\ apiKey = TRUE
  /\ cleanup_thread = 0
  /\ cleaners = <<>>
  /\ stopEvent = FALSE
  /\ transcripts = EmptyMap
  /\ processed = FALSE
  /\ temp_paths = EmptyMap
  /\ pc = "idle"
  /\ uploaded_files = <<>>
  /\ units = <<>>
  /\ page = BlankPage
  /\ oldKeys = {}
  /\ batches = 0
  /\ callers = [s \in Sessions |-> [pc |-> "idle", calls |-> 0, error |-> FALSE]]
  /\ probe = NoProbe

\* lines 56-57: the directory is made and the guard evaluated
EnsureCheck(s) ==
  /\ callers[s].pc = "idle"
  /\ callers[s].calls < MaxCalls
  /\ dirExists' = TRUE
  /\ callers' = [callers EXCEPT ![s] =
                   IF NeedsThread(cleanup_thread, cleaners)
                   THEN [@ EXCEPT !.pc = "create"]
                   ELSE [@ EXCEPT !.calls = @ + 1]]
  /\ UNCHANGED <<now, dir, apiKey, threadVars, sessionVars, histVars, probe>>

\* lines 58-63: the Thread object is made and bound to _cleanup_thread
EnsureCreate(s) ==
  /\ callers[s].pc = "create"
  /\ cleaners' = Append(cleaners, NewCleaner)
  /\ cleanup_thread' = Len(cleaners) + 1
  /\ callers' = [callers EXCEPT ![s] = [@ EXCEPT !.pc = "start"]]
  /\ UNCHANGED <<now, fsVars, apiKey, stopEvent, sessionVars, histVars, probe>>

\* line 64: _cleanup_thread.start(), on whatever the global names now;
\* starting a thread a second time raises RuntimeError
EnsureStart(s) ==
  /\ callers[s].pc = "start"
  /\ LET started == cleaners[cleanup_thread].pc # "new"
     IN  /\ cleaners' = IF started THEN cleaners
                        ELSE [cleaners EXCEPT ![cleanup_thread] =
                                [@ EXCEPT !.pc = "check"]]
         /\ callers' = [callers EXCEPT ![s] =
                          [pc |-> "idle", calls |-> @.calls + 1,
                           error |-> @.error \/ started]]
  /\ UNCHANGED <<now, fsVars, apiKey, cleanup_thread, stopEvent, sessionVars,
                 histVars, probe>>

\* _cleanup_stop_event.set(): nothing in app.py calls it; whoever owns the
\* process may
SetStop ==
  /\ ~stopEvent
  /\ stopEvent' = TRUE
  /\ UNCHANGED <<now, fsVars, apiKey, cleanup_thread, cleaners, sessionVars,
                 histVars, callers, probe>>

NextEnsure ==
  \/ \E s \in Sessions : EnsureCheck(s)
  \/ \E s \in Sessions : EnsureCreate(s)
  \/ \E s \in Sessions : EnsureStart(s)
  \/ \E i \in 1..MaxCleaners : CleanerLoop(i)
  \/ SetStop
  \/ Tick

SpecEnsure == InitEnsure /\ [][NextEnsure]_vars

\* ------------------------------------------------------------ the sweep, call by call, beside other deletions
\* delete_old_files_in_directory taken one file-system call at a time
\* (lines 25-38), while tasks remove their temp files (lines 172-177) or
\* anything else deletes entries of the directory. probe is the sweep's
\* frame: t is its now, listed the paths iterdir() gave, todo those not yet
\* visited, path the loop variable, error an exception that left the call,
\* raised the paths whose stat() raised, lost the paths others removed,
\* removeError an exception that left another party's removal.
RaceStart(max_age, d) ==
  [fn |-> "sweep_steps", max_age |-> max_age, pc |-> "begin", t |-> 0,
   before |-> d, listed |-> {}, todo |-> {}, path |-> 0,
   error |-> FALSE, raised |-> {}, lost |-> {}, removeError |-> FALSE]

InitRace ==
  /\ now = MaxNow
  /\ dirExists = TRUE
  /\ dir \in SweepDirs(now, MAX_TEMP_FILE_AGE_SECONDS)
  /\ probe = RaceStart(MAX_TEMP_FILE_AGE_SECONDS, dir)
  /\ apiKey = TRUE
  /\ cleanup_thread = 0
  /\ cleaners = <<>>
  /\ stopEvent = FALSE
  /\ transcripts = EmptyMap
  /\ processed = FALSE
  /\ temp_paths = EmptyMap
  /\ pc = "idle"
  /\ uploaded_files = <<>>
  /\ units = <<>>
  /\ page = BlankPage
  /\ oldKeys = {}
  /\ batches = 0
  /\ callers = <<>>

raceFrame == <<now, dirExists, apiKey, threadVars, sessionVars, histVars, callers>>

\* lines 25-29: now is read, the directory exists, iterdir() lists it
RaceList ==
  /\ probe.fn = "sweep_steps"
  /\ probe.pc = "begin"
  /\ probe' = [probe EXCEPT !.pc = "next", !.t = now, !.before = dir,
                            !.listed = DOMAIN dir, !.todo = DOMAIN dir]
  /\ UNCHANGED <<dir, raceFrame>>

\* line 29: the for loop takes the next listed path, or ends
RaceNext ==
  /\ probe.fn = "sweep_steps"
  /\ probe.pc = "next"
  /\ IF probe.todo = {}
     THEN probe' = [probe EXCEPT !.pc = "end"]
     ELSE \E p \in probe.todo :
            probe' = [probe EXCEPT !.pc = "is_file", !.path = p, !.todo = @ \ {p}]
  /\ UNCHANGED <<dir, raceFrame>>

\* line 31: path.is_file() is False for a subdirectory and for a path
\* that is gone
RaceIsFile ==
  /\ probe.fn = "sweep_steps"
  /\ probe.pc = "is_file"
  /\ probe' = [probe EXCEPT !.pc =
                 IF probe.path \in DOMAIN dir /\ dir[probe.path].kind = "file"
                 THEN "stat" ELSE "next"]
  /\ UNCHANGED <<dir, raceFrame>>

\* a faulty variant: no try around the loop body, the exception leaves the call
SweepUncaught(frame) == [frame EXCEPT !.pc = "end", !.error = TRUE]

\* lines 36-38: except Exception: pass, the loop goes on
SweepCaught(frame) == [frame EXCEPT !.pc = "next"]

\* lines 32-33: path.stat() raises FileNotFoundError when the path went
\* after is_file(); else the age is compared
RaceStat ==
  /\ probe.fn = "sweep_steps"
  /\ probe.pc = "stat"
  /\ probe' = IF probe.path \notin DOMAIN dir
              THEN SweepCaught([probe EXCEPT !.raised = @ \cup {probe.path}])
              ELSE [probe EXCEPT !.pc =
                      IF IsStale(dir[probe.path], probe.t, probe.max_age)
                      THEN "unlink" ELSE "next"]
  /\ UNCHANGED <<dir, raceFrame>>

\* line 35: path.unlink(missing_ok=True)
RaceUnlink ==
  /\ probe.fn = "sweep_steps"
  /\ probe.pc = "unlink"
  /\ dir' = Without(dir, probe.path)
  /\ probe' = [probe EXCEPT !.pc = "next"]
  /\ UNCHANGED raceFrame

\* lines 174-177: os.remove(p) raises when p is gone; except Exception:
\* pass lets nothing out of the task
RemoveEscapes(missing) == FALSE

\* lines 172-177 (or any other deletion): os.remove(p) under try/except,
\* of a file that is there or of one the sweep has taken already
RaceRemove(p) ==
  /\ probe.fn = "sweep_steps"
  /\ p \in DOMAIN probe.before
  /\ p \notin probe.lost
  /\ probe.before[p].kind = "file"
  /\ dir' = Without(dir, p)
  /\ probe' = [probe EXCEPT !.lost = @ \cup {p},
                            !.removeError = @ \/ RemoveEscapes(p \notin DOMAIN dir)]
  /\ UNCHANGED raceFrame

NextRace ==
  \/ RaceList
  \/ RaceNext
  \/ RaceIsFile
  \/ RaceStat
  \/ RaceUnlink
  \/ \E p \in 1..MaxEntries : RaceRemove(p)

SpecRace == InitRace /\ [][NextRace]_vars

\* ------------------------------------------------------------ _cleanup_loop, line by line, and the stop event
\* One started sweep thread over a directory left by earlier runs (the
\* clock is relative to the start, so their mtimes are negative); a thread
\* is at its while test ("check"), inside the sweep ("sweep"), in the
\* wait ("wait") or finished ("dead"). The stop event may be set at any
\* point.
InitStop ==
  /\ now = 0
  /\ dirExists = TRUE
  /\ dir \in SweepDirs(now, MAX_TEMP_FILE_AGE_SECONDS)
  /\ apiKey = TRUE
  /\ cleanup_thread = 1
  /\ cleaners = <<[NewCleaner EXCEPT !.pc = "check"]>>
  /\ stopEvent = FALSE
  /\ transcripts = EmptyMap
  /\ processed = FALSE
  /\ temp_paths = EmptyMap
  /\ pc = "idle"
  /\ uploaded_files = <<>>
  /\ units = <<>>
  /\ page = BlankPage
  /\ oldKeys = {}
  /\ batches = 0
  /\ callers = <<>>
  /\ probe = NoProbe

\* line 41: while not _cleanup_stop_event.is_set()
CleanupLoopTest(i) ==
  /\ i \in 1..Len(cleaners)
  /\ cleaners[i].pc = "check"
  /\ cleaners' = [cleaners EXCEPT ![i] =
                    [@ EXCEPT !.pc = IF stopEvent THEN "dead" ELSE "sweep"]]
  /\ UNCHANGED <<now, fsVars, apiKey, cleanup_thread, stopEvent, sessionVars,
                 histVars, callers, probe>>

\* line 42, then line 44 entered: the wait ends interval_seconds from now
CleanupLoopSweep(i) ==
  /\ i \in 1..Len(cleaners)
  /\ cleaners[i].pc = "sweep"
  /\ dir' = delete_old_files_in_directory(dir, dirExists, now,
                                          MAX_TEMP_FILE_AGE_SECONDS)
  /\ cleaners' = [cleaners EXCEPT ![i] =
                    [pc |-> "wait", wakeAt |-> now + INTERVAL_SECONDS]]
  /\ UNCHANGED <<now, dirExists, apiKey, cleanup_thread, stopEvent, sessionVars,
                 histVars, callers, probe>>

\* a faulty variant: time.sleep(interval_seconds), which no event ends
CleanupLoopSleep(i) ==
  /\ i \in 1..Len(cleaners)
  /\ cleaners[i].pc = "wait"
  /\ now >= cleaners[i].wakeAt
  /\ cleaners' = [cleaners EXCEPT ![i] = [@ EXCEPT !.pc = "check"]]
  /\ UNCHANGED <<now, fsVars, apiKey, cleanup_thread, stopEvent, sessionVars,
                 histVars, callers, probe>>

\* line 44: _cleanup_stop_event.wait(interval_seconds) returns when the
\* event is set or the interval is over
CleanupLoopWait(i) ==
  /\ i \in 1..Len(cleaners)
  /\ cleaners[i].pc = "wait"
  /\ stopEvent \/ now >= cleaners[i].wakeAt
  /\ cleaners' = [cleaners EXCEPT ![i] = [@ EXCEPT !.pc = "check"]]
  /\ UNCHANGED <<now, fsVars, apiKey, cleanup_thread, stopEvent, sessionVars,
                 histVars, callers, probe>>

NextStop ==
  \/ \E i \in 1..MaxCleaners : CleanupLoopTest(i)
  \/ \E i \in 1..MaxCleaners : CleanupLoopSweep(i)
  \/ \E i \in 1..MaxCleaners : CleanupLoopWait(i)
  \/ SetStop
  \/ Tick

\* A started thread that can take a step takes it in the end; nothing
\* is assumed of the clock or of whoever sets the stop event.
FairStop ==
  \A i \in 1..MaxCleaners :
    /\ WF_vars(CleanupLoopTest(i))
    /\ WF_vars(CleanupLoopSweep(i))
    /\ WF_vars(CleanupLoopWait(i))

SpecStop == InitStop /\ [][NextStop]_vars /\ FairStop

\* ------------------------------------------------------------ the worker pool on larger batches
\* The state main() is in at line 179 of a first Process click on n uploads
\* of one name: n temp files written under n different tokens, n tasks
\* submitted, none started. The clock stands still.
PoolName == [stem |-> "a", ext |-> "wav"]

PoolUnits(n) == [i \in 1..n |-> NewUnit(PoolName, TempPath(PoolName, i))]

PoolDir(n) ==
  [p \in {TempPath(PoolName, i) : i \in 1..n} |->
     [kind |-> "file", mtime |-> 0, content |-> p.id]]

InitPool ==
  /\ now = 0
  /\ dirExists = TRUE
  /\ \E n \in 1..MaxPoolFiles :
       /\ uploaded_files = [i \in 1..n |-> PoolName]
       /\ units = PoolUnits(n)
       /\ dir = PoolDir(n)
  /\ apiKey = TRUE
  /\ cleanup_thread = 1
  /\ cleaners = <<[pc |-> "wait", wakeAt |-> INTERVAL_SECONDS]>>
  /\ stopEvent = FALSE
  /\ transcripts = EmptyMap
  /\ processed = FALSE
  /\ temp_paths = EmptyMap
  /\ pc = "pool"
  /\ page = CleanPage
  /\ oldKeys = {}
  /\ batches = 1
  /\ callers = <<>>
  /\ probe = NoProbe

NextPool ==
  \/ \E i \in 1..MaxPoolFiles : TaskStart(i)
  \/ \E i \in 1..MaxPoolFiles : TaskFinish(i)
  \/ \E i \in 1..MaxPoolFiles : Collect(i)
  \/ FinishProcess

SpecPool == InitPool /\ [][NextPool]_vars

\* ------------------------------------------------------------ the claims
Completed == pc = "done"

\* C1: after Process completes for a batch of N uploads, transcripts has
\* exactly N entries (one per upload, under distinct keys), whatever each
\* transcription's outcome.
C1_OneEntryPerUpload ==
  Completed => Cardinality(DOMAIN transcripts) = Len(uploaded_files)

\* C2: after Process completes, no temp file written for the batch is left
\* in the scratch directory, also when transcriptions failed.
C2_NoBatchFileLeft ==
  Completed => \A i \in DOMAIN units : units[i].path \notin DOMAIN dir

C2_Witness ==
  /\ Completed
  /\ Len(units) = 2
  /\ units[1].path # units[2].path
  /\ \E i \in DOMAIN units : units[i].opened /\ units[i].failed
  /\ \E i \in DOMAIN units : ~units[i].failed

\* C3: transcribe_audio never raises; it returns a text, and in every
\* failure case (no credential, a non-path argument, a missing file, a
\* provider error, an empty or blank transcript) the text begins "Error:".
C3_NeverRaises ==
  probe.fn = "transcribe_audio" /\ probe.done =>
    /\ ~probe.result.raised
    /\ probe.result.value \in Seq(STRING)
    /\ probe.result.value # <<>>
    /\ TranscribeFails(probe.is_path, probe.opened, probe.outcome, probe.key)
         => StartsWithError(probe.result.value)

C3_Witness ==
  /\ probe.fn = "transcribe_audio"
  /\ probe.done
  /\ probe.key /\ probe.is_path /\ ~probe.opened
  /\ StartsWithError(probe.result.value)

\* C4: however ensure_cleanup_thread_running is called, also from several
\* script threads at once, at most one sweep thread is alive.
C4_AtMostOneCleaner == Cardinality(AliveCleaners) <= 1

\* C5: without the credential a run of the pipeline shows exactly one
\* fatal message and processes nothing: no temp file is written, no
\* transcription is started, no result is recorded.
C5_NoKeyNoProcessing ==
  ~apiKey =>
    /\ page.ran => page.fatal = 1
    /\ pc = "idle"
    /\ dir = EmptyDir
    /\ units = <<>>
    /\ transcripts = EmptyMap
    /\ ~processed
    /\ batches = 0

C5_Witness ==
  ~apiKey /\ page.ran /\ page.fatal = 1 /\ dirExists /\ AliveCleaners # {}

\* C6: delete_old_files_in_directory(dir, max_age) removes every regular
\* file older than max_age and leaves every other entry as it was; a file
\* aged max_age + 1 goes, files aged max_age and max_age - 1 stay.
C6_SweepRemovesExactlyTheStale ==
  probe.fn = "delete_old_files_in_directory" /\ probe.done =>
    /\ DOMAIN dir \subseteq DOMAIN probe.before
    /\ \A p \in DOMAIN probe.before :
         LET e == probe.before[p]
             age == now - e.mtime
         IN  /\ (e.kind = "file" /\ age > probe.max_age) => p \notin DOMAIN dir
             /\ (e.kind = "file" /\ age = probe.max_age + 1) => p \notin DOMAIN dir
             /\ (e.kind = "file" /\ age <= probe.max_age) =>
                  p \in DOMAIN dir /\ dir[p] = e
             /\ (e.kind = "file" /\ age = probe.max_age - 1) => p \in DOMAIN dir
             /\ e.kind # "file" => p \in DOMAIN dir /\ dir[p] = e

C6_Witness ==
  /\ probe.fn = "delete_old_files_in_directory"
  /\ probe.done
  /\ probe.max_age = MAX_TEMP_FILE_AGE_SECONDS
  /\ \E p \in DOMAIN probe.before :
       /\ probe.before[p].kind = "file"
       /\ now - probe.before[p].mtime = probe.max_age + 1
       /\ p \notin DOMAIN dir
  /\ \E p \in DOMAIN dir :
       dir[p].kind = "file" /\ now - dir[p].mtime = probe.max_age - 1

\* C7: while the sweep thread runs with its defaults, no temp file in the
\* scratch directory is ever older than one retention window.
C7_NoFileOlderThanWindow ==
  AliveCleaners # {} =>
    \A p \in DOMAIN dir : now - dir[p].mtime <= MAX_TEMP_FILE_AGE_SECONDS

\* C8: a key that remove_transcript removed (or that an earlier batch
\* used) is never a key of a later Process run.
C8_KeysNeverReused == DOMAIN transcripts \cap oldKeys = {}

\* C9: a failed transcription does not abort the batch: each finished unit
\* is recorded with its own name and text, a failed one with a text that
\* begins "Error:", and Process completes with every upload's unit
\* transcribed and recorded.
C9_Step ==
  /\ \A i \in DOMAIN units :
       (units[i].st = "done" /\ i \in DOMAIN units' /\ units'[i].st = "recorded") =>
         /\ \E k \in DOMAIN transcripts' :
              /\ k.name = units[i].name
              /\ transcripts'[k] = [name |-> units[i].name, text |-> units[i].text]
         /\ units[i].failed => StartsWithError(units[i].text)
  /\ pc' = "done" =>
       /\ Len(units') = Len(uploaded_files')
       /\ \A i \in DOMAIN units' :
            /\ units'[i].st = "recorded"
            /\ units'[i].removes = 1
            /\ units'[i].name = uploaded_files'[i]

C9_FailureDoesNotAbort == [][C9_Step]_vars

C9_Witness ==
  /\ Completed
  /\ Len(units) = 2
  /\ units[1].failed /\ units[1].opened
  /\ ~units[2].failed
  /\ \E k \in DOMAIN transcripts : ~StartsWithError(transcripts[k].text)
  /\ \E k \in DOMAIN transcripts : StartsWithError(transcripts[k].text)

\* C10: a failure to prepare one upload (its temp file cannot be written)
\* is recorded for that file and no exception reaches the presentation
\* layer.
C10_PreparationFailureIsolated == ~page.exception

\* C11: the sweep is idempotent: a second call of
\* delete_old_files_in_directory with the same arguments, right after the
\* first, leaves the directory exactly as the first call left it.
C11_SweepIdempotent ==
  probe.fn = "delete_old_files_in_directory" /\ probe.again => dir = probe.first

C11_Witness ==
  /\ probe.fn = "delete_old_files_in_directory"
  /\ probe.again
  /\ Cardinality(DOMAIN probe.before \ DOMAIN probe.first) >= 2
  /\ \E p \in DOMAIN dir : dir[p].kind = "file"

\* C12: for every unit of a batch the removal of its temp file is
\* attempted exactly once: at the end of its task, after transcribe_audio
\* has returned (with a text or an error text alike), and before the
\* unit's result is recorded in transcripts.
C12_Step ==
  \A i \in DOMAIN units \cap DOMAIN units' :
    LET u == units[i]
        v == units'[i]
    IN  /\ v.removes \in {u.removes, u.removes + 1}
        /\ v.removes # u.removes <=> (u.st = "running" /\ v.st = "done")
        /\ (u.st = "running" /\ v.st = "done") => u.path \notin DOMAIN dir'
        /\ v.st \in {"queued", "running"} => v.removes = 0
        /\ v.st \in {"done", "recorded"} => v.removes = 1
        /\ (v.st = "recorded" /\ u.st # "recorded") => (u.st = "done" /\ u.removes = 1)

C12_RemovedOnceBeforeRecorded == [][C12_Step]_vars

C12_Witness ==
  /\ pc = "pool"
  /\ \E i, j \in DOMAIN units :
       /\ units[i].st = "recorded" /\ units[i].failed /\ units[i].opened
       /\ units[i].removes = 1
       /\ units[j].st = "done" /\ ~units[j].failed /\ units[j].removes = 1
       /\ units[i].path # units[j].path

\* C13: during a batch of N files never more than min(4, N) transcription
\* calls are in flight at once.
C13_AtMostFourInFlight ==
  pc = "pool" => Cardinality(Running) <= Min(4, Len(uploaded_files))

C13_Witness ==
  /\ pc = "pool"
  /\ Len(uploaded_files) > 4
  /\ Cardinality(Running) = 4
  /\ \E i \in DOMAIN units : units[i].st = "queued"

\* C14: when a sweep runs beside other deletions of files of the scratch
\* directory, a file that goes between the sweep's listing and its stat or
\* unlink raises no error in the sweep nor in the other party, and the
\* sweep still deletes every other stale file it listed.
C14_RaceTolerated ==
  probe.fn = "sweep_steps" =>
    /\ ~probe.error
    /\ ~probe.removeError
    /\ probe.pc = "end" =>
         \A p \in probe.listed :
           IsStale(probe.before[p], probe.t, probe.max_age) => p \notin DOMAIN dir

C14_Witness ==
  /\ probe.fn = "sweep_steps"
  /\ probe.pc = "end"
  /\ \E p, q \in probe.listed :
       /\ p \in probe.lost \cap probe.raised
       /\ q \notin probe.lost
       /\ IsStale(probe.before[q], probe.t, probe.max_age)
       /\ q \notin DOMAIN dir
  /\ \E p \in DOMAIN dir : dir[p].kind = "file"

\* C15: besides the recording of a batch's results, transcripts changes in
\* two ways only: remove_transcript(K) takes the entry of K away and leaves
\* every other entry as it was (nothing changes when K is absent), and a
\* new Process run empties the mapping before any of its results is
\* recorded.
C15_Step ==
  /\ transcripts' # transcripts =>
       \/ /\ pc = "pool" /\ pc' = "pool"
          /\ \E k \in DOMAIN transcripts' :
               transcripts' = Put(transcripts, k, transcripts'[k])
       \/ /\ pc \in {"idle", "done"} /\ pc' = "idle"
          /\ \E k \in DOMAIN transcripts :
               /\ transcripts' = Without(transcripts, k)
               /\ k \in oldKeys'
       \/ /\ pc \in {"idle", "done"} /\ pc' = "write"
          /\ transcripts' = EmptyMap
  /\ (pc \in {"idle", "done"} /\ pc' = "write") => transcripts' = EmptyMap
  /\ pc' = "write" => transcripts' = EmptyMap

C15_OnlyRemoveAndClear == [][C15_Step]_vars

C15_Witness ==
  /\ pc = "idle"
  /\ processed
  /\ batches = 1
  /\ Cardinality(oldKeys) = 1
  /\ Cardinality(DOMAIN transcripts) = 1
  /\ oldKeys \cap DOMAIN transcripts = {}

\* C16: whatever the order in which the units complete, the result
\* recorded for upload i has upload i's name and the text that
\* transcribing upload i's bytes gave, never the text of another upload
\* of the batch.
C16_Step ==
  \A i \in DOMAIN units \cap DOMAIN units' :
    (units[i].st = "done" /\ units'[i].st = "recorded" /\ ~units[i].failed) =>
      \E k \in DOMAIN transcripts' :
        /\ transcripts'[k].name = uploaded_files[i]
        /\ transcripts'[k].text = Strip(ProviderText("speech", i))

C16_ResultPairsNameAndText == [][C16_Step]_vars

\* C17: no sweep, of the thread or after a batch, deletes a temp file of a
\* running batch that is younger than the retention window, so every unit
\* whose transcription starts within the retention window of the writing
\* of its temp file finds the file there when it opens it. The clock
\* starts at 0, so up to the end of the first window every unit that
\* starts is within the window of its file.
C17_Step ==
  /\ \A p \in DOMAIN dir \ DOMAIN dir' :
       now - dir[p].mtime <= MAX_TEMP_FILE_AGE_SECONDS =>
         \E i \in DOMAIN units \cap DOMAIN units' :
           units[i].path = p /\ units[i].st = "running" /\ units'[i].st = "done"
  /\ \A i \in DOMAIN units \cap DOMAIN units' :
       ( /\ units[i].st = "queued"
         /\ units'[i].st = "running"
         /\ now <= MAX_TEMP_FILE_AGE_SECONDS ) => units'[i].opened

C17_YoungFilePresentAtOpen == [][C17_Step]_vars

\* C18: once the stop event is set the sweep loop ends: a sweep that is
\* in progress is finished, no further sweep is started, and the thread
\* leaves its wait at once, not at the end of the interval.
C18_Step ==
  stopEvent =>
    \A i \in DOMAIN cleaners :
      /\ cleaners[i].pc # "sweep" => cleaners'[i].pc # "sweep"
      /\ cleaners[i].pc = "sweep" => cleaners'[i].pc \in {"sweep", "wait"}
      /\ cleaners[i].pc = "dead" => cleaners'[i].pc = "dead"
      /\ dir' # dir => cleaners[i].pc = "sweep"

C18_StopEndsLoop ==
  /\ [][C18_Step]_vars
  /\ [](stopEvent => \A i \in DOMAIN cleaners :
                       cleaners[i].pc = "wait" => ENABLED CleanupLoopWait(i))
  /\ stopEvent ~> (\A i \in DOMAIN cleaners : cleaners[i].pc = "dead")

C18_Witness ==
  /\ stopEvent
  /\ now < cleaners[1].wakeAt
  /\ cleaners[1].pc = "dead"
  /\ \E p \in DOMAIN dir : dir[p].kind = "file"

\* C19: every Process run on a batch of N files completes (the provider
\* calls all return or raise): a run that has started ends only with all
\* N units finished, all N results recorded and processed set.
C19_Step ==
  (pc \in {"write", "pool"} /\ pc' \notin {"write", "pool"}) =>
    /\ pc' = "done"
    /\ processed'
    /\ Len(units') = Len(uploaded_files)
    /\ \A i \in DOMAIN units' : units'[i].st = "recorded"

C19_RunCompletes == [][C19_Step]_vars

====
